---- MODULE Spec2Model ----
(***************************************************************************)
(* The statement table of candidate-agreement (table.rs).                  *)
(*                                                                         *)
(* A Table accumulates the signed statements validators issue about        *)
(* candidates: proposals, validity votes and availability votes.  Its      *)
(* only mutator is import_statement, which consults a Context (digest and  *)
(* group of a candidate, the two authority relations, signer recovery).    *)
(***************************************************************************)
EXTENDS Naturals, Integers, Sequences, FiniteSets, TLC

\* ---------------------------------------------------------------------
\* Bounds of the model
\* ---------------------------------------------------------------------
NumValidators == 2
NumGroups == 2
NumBodies == 2
NumNonces == 2
MaxImports == 3

Validators == 1..NumValidators
Groups == 1..NumGroups
Bodies == 1..NumBodies
Digests == Bodies

\* Option<T>: None is the empty sequence, Some(x) the one-element sequence.
None == << >>
Some(x) == << x >>
IsSome(o) == Len(o) = 1
Unwrap(o) == o[1]

\* ---------------------------------------------------------------------
\* Data model
\* ---------------------------------------------------------------------
\* tests::Candidate(group, body)
Candidates == [group : Groups, body : Bodies]

\* A signature is opaque to the table.  Key 0 is a signature no signer can
\* be recovered from; the nonce tells apart two signatures of one signer.
Signatures == {[key |-> 0, nonce |-> 1]} \cup [key : Validators, nonce : 1..NumNonces]

Statements ==
    [kind : {"Candidate"}, candidate : Candidates]
        \cup [kind : {"Valid", "Available", "Invalid"}, digest : Digests]

SignedStatements == [statement : Statements, signature : Signatures]

ValidityDoubleVote(digest, t_signature, f_signature) ==
    [kind |-> "ValidityDoubleVote", digest |-> digest,
     t_signature |-> t_signature, f_signature |-> f_signature]

MultipleCandidates(first, second) ==
    [kind |-> "MultipleCandidates", first |-> first, second |-> second]

UnauthorizedStatement(statement) ==
    [kind |-> "UnauthorizedStatement", statement |-> statement]

CandidateData(group_id, candidate) ==
    [group_id |-> group_id,
     candidate |-> candidate,
     validity_votes |-> << >>,
     availability_votes |-> {},
     indicated_bad_by |-> << >>]

\* HashMap::insert: the entry of key k becomes v, present or not.
Insert(map, k, v) ==
    [x \in (DOMAIN map) \cup {k} |-> IF x = k THEN v ELSE map[x]]

\* ---------------------------------------------------------------------
\* Context
\* ---------------------------------------------------------------------
candidate_digest(candidate) == candidate.body

candidate_group(candidate) == candidate.group

is_member_of(ctx, validator, group) == ctx.is_member_of[<<validator, group>>]

is_availability_guarantor_of(ctx, validator, group) ==
    ctx.is_availability_guarantor_of[<<validator, group>>]

statement_signer(statement) ==
    IF statement.signature.key \in Validators
        THEN Some(statement.signature.key)
        ELSE None

\* ---------------------------------------------------------------------
\* State
\* ---------------------------------------------------------------------
VARIABLES
    proposed_candidates,    \* ValidatorId -> (Digest, Signature)
    detected_misbehavior,   \* ValidatorId -> Misbehavior
    candidate_votes,        \* Digest -> CandidateData
    context,                \* the answers the Context has given so far
    before,                 \* the Table the latest import_statement call was made on
    last,                   \* the statement of the latest import_statement call
    maybe_misbehavior,      \* what the sub-operation of the latest call returned
    panicked,               \* an expect() of the latest call failed
    imported,               \* the statements import_statement was called with so far
    imports                 \* number of import_statement calls so far

vars == <<proposed_candidates, detected_misbehavior, candidate_votes,
          context, before, last, maybe_misbehavior, panicked, imported, imports>>

Table ==
    [proposed_candidates |-> proposed_candidates,
     detected_misbehavior |-> detected_misbehavior,
     candidate_votes |-> candidate_votes]

create ==
    [proposed_candidates |-> << >>,
     detected_misbehavior |-> << >>,
     candidate_votes |-> << >>]

\* ---------------------------------------------------------------------
\* Table operations.  Each takes the table and returns the table it
\* leaves, the Option<Misbehavior> it returns and whether it panicked.
\* ---------------------------------------------------------------------
Outcome(table, misbehavior) ==
    [table |-> table, misbehavior |-> misbehavior, panic |-> FALSE]

Panic(table) == [table |-> table, misbehavior |-> None, panic |-> TRUE]

\* The proof of an unauthorized validity vote always wrapping Statement::Valid.
unauthorized_as_valid(table, kind_statement, signature) ==
    Outcome(table, Some(UnauthorizedStatement(
        [statement |-> IF kind_statement.kind = "Invalid"
                          THEN [kind |-> "Valid", digest |-> kind_statement.digest]
                          ELSE kind_statement,
         signature |-> signature])))

\* return Some(Misbehavior::UnauthorizedStatement(..)) of the three sub-operations
unauthorized(table, kind_statement, signature) ==
    Outcome(table, Some(UnauthorizedStatement(
        [statement |-> kind_statement, signature |-> signature])))

\* A vote on a digest without CandidateData reported as unauthorized.
unknown_digest_unauthorized(table, from, digest, signature) ==
    Outcome(table, Some(UnauthorizedStatement(
        [statement |-> [kind |-> "Valid", digest |-> digest],
         signature |-> signature])))

\* `None => return None`: a vote on a digest without CandidateData
unknown_digest(table, from, digest, signature) == Outcome(table, None)

\* The Occupied branch without the comparison of digests.
occupied_proposal_strict(table, from, digest, candidate, signature) ==
    LET occ == table.proposed_candidates[from]
        old_digest == occ[1]
    IN  IF old_digest \notin DOMAIN table.candidate_votes
        THEN Panic(table)
        ELSE Outcome(table, Some(MultipleCandidates(
                <<table.candidate_votes[old_digest].candidate, occ[2]>>,
                <<candidate, signature>>)))

\* The Occupied branch with the newer proposal taking the place of the first.
occupied_proposal_replacing(table, from, digest, candidate, signature) ==
    LET occ == table.proposed_candidates[from]
        old_digest == occ[1]
    IN  IF old_digest # digest
        THEN IF old_digest \notin DOMAIN table.candidate_votes
             THEN Panic(table)
             ELSE Outcome(
                     [table EXCEPT !.proposed_candidates =
                         Insert(@, from, <<digest, signature>>)],
                     Some(MultipleCandidates(
                         <<table.candidate_votes[old_digest].candidate, occ[2]>>,
                         <<candidate, signature>>)))
        ELSE Outcome(table, None)

\* The Occupied branch with CandidateData created for the second digest.
occupied_proposal_creating_votes(table, from, digest, candidate, signature) ==
    LET occ == table.proposed_candidates[from]
        old_digest == occ[1]
    IN  IF old_digest # digest
        THEN IF old_digest \notin DOMAIN table.candidate_votes
             THEN Panic(table)
             ELSE Outcome(
                     [table EXCEPT !.candidate_votes =
                         IF digest \in DOMAIN @
                             THEN @
                             ELSE Insert(@, digest,
                                     CandidateData(candidate_group(candidate), candidate))],
                     Some(MultipleCandidates(
                         <<table.candidate_votes[old_digest].candidate, occ[2]>>,
                         <<candidate, signature>>)))
        ELSE Outcome(table, None)

\* import_candidate, Entry::Occupied
occupied_proposal(table, from, digest, candidate, signature) ==
    LET occ == table.proposed_candidates[from]
        old_digest == occ[1]
    IN  IF old_digest # digest
        THEN IF old_digest \notin DOMAIN table.candidate_votes
             THEN Panic(table)
             ELSE Outcome(table, Some(MultipleCandidates(
                     <<table.candidate_votes[old_digest].candidate, occ[2]>>,
                     <<candidate, signature>>)))
        ELSE Outcome(table, None)

\* The Vacant branch without the CandidateData of the digest.
vacant_proposal_without_votes(table, from, group, digest, candidate, signature) ==
    Outcome(
        [table EXCEPT
            !.proposed_candidates = Insert(@, from, <<digest, signature>>)],
        None)

\* The Vacant branch with candidate_votes.insert in place of or_insert_with.
vacant_proposal_resetting(table, from, group, digest, candidate, signature) ==
    Outcome(
        [table EXCEPT
            !.proposed_candidates = Insert(@, from, <<digest, signature>>),
            !.candidate_votes = Insert(@, digest, CandidateData(group, candidate))],
        None)

\* The Vacant branch with the latest proposal's candidate and group stored
\* under the digest, the votes kept.
vacant_proposal_latest_candidate(table, from, group, digest, candidate, signature) ==
    Outcome(
        [table EXCEPT
            !.proposed_candidates = Insert(@, from, <<digest, signature>>),
            !.candidate_votes =
                IF digest \in DOMAIN @
                    THEN [@ EXCEPT ![digest].group_id = group,
                                   ![digest].candidate = candidate]
                    ELSE Insert(@, digest, CandidateData(group, candidate))],
        None)

\* The Vacant branch without the record of the proposer.
vacant_proposal_without_record(table, from, group, digest, candidate, signature) ==
    Outcome(
        [table EXCEPT
            !.candidate_votes =
                IF digest \in DOMAIN @
                    THEN @
                    ELSE Insert(@, digest, CandidateData(group, candidate))],
        None)

\* import_candidate, Entry::Vacant
vacant_proposal(table, from, group, digest, candidate, signature) ==
    Outcome(
        [table EXCEPT
            !.proposed_candidates = Insert(@, from, <<digest, signature>>),
            !.candidate_votes =
                IF digest \in DOMAIN @
                    THEN @
                    ELSE Insert(@, digest, CandidateData(group, candidate))],
        None)

import_candidate(ctx, table, from, candidate, signature) ==
    LET group == candidate_group(candidate)
        digest == candidate_digest(candidate)
    IN  IF ~is_member_of(ctx, from, group)
        THEN unauthorized(table, [kind |-> "Candidate", candidate |-> candidate],
                          signature)
        ELSE IF from \in DOMAIN table.proposed_candidates
        THEN occupied_proposal(table, from, digest, candidate, signature)
        ELSE vacant_proposal(table, from, group, digest, candidate, signature)

\* The Occupied branch with the latest vote taking the place of the first.
occupied_vote_overwriting(table, from, digest, valid, signature) ==
    LET occ == table.candidate_votes[digest].validity_votes[from]
        latest == [table EXCEPT !.candidate_votes[digest].validity_votes[from] =
                      <<valid, signature>>]
    IN  IF occ[1] # valid
        THEN Outcome(latest, Some(
                IF valid
                    THEN ValidityDoubleVote(digest, signature, occ[2])
                    ELSE ValidityDoubleVote(digest, occ[2], signature)))
        ELSE Outcome(latest, None)

\* The Occupied branch with the proof's slots filled in arrival order.
occupied_vote_arrival_order(table, from, digest, valid, signature) ==
    LET occ == table.candidate_votes[digest].validity_votes[from]
    IN  IF occ[1] # valid
        THEN Outcome(table, Some(ValidityDoubleVote(digest, occ[2], signature)))
        ELSE Outcome(table, None)

\* The Occupied branch returning None for a vote with the opposite flag too.
occupied_vote_silent(table, from, digest, valid, signature) ==
    Outcome(table, None)

\* validity_vote, Entry::Occupied
occupied_vote(table, from, digest, valid, signature) ==
    LET occ == table.candidate_votes[digest].validity_votes[from]
    IN  IF occ[1] # valid
        THEN Outcome(table, Some(
                IF valid
                    THEN ValidityDoubleVote(digest, signature, occ[2])
                    ELSE ValidityDoubleVote(digest, occ[2], signature)))
        ELSE Outcome(table, None)

\* The Vacant branch with the push guarded by `!valid`.
vacant_vote_invalid_only(table, from, digest, valid, signature) ==
    Outcome(
        [table EXCEPT !.candidate_votes[digest] =
            [@ EXCEPT
                !.validity_votes = Insert(@, from, <<valid, signature>>),
                !.indicated_bad_by = IF valid THEN @ ELSE Append(@, from)]],
        None)

\* validity_vote, Entry::Vacant
vacant_vote(table, from, digest, valid, signature) ==
    Outcome(
        [table EXCEPT !.candidate_votes[digest] =
            [@ EXCEPT
                !.validity_votes = Insert(@, from, <<valid, signature>>),
                !.indicated_bad_by = Append(@, from)]],
        None)

\* validity_vote asking whether the voter is an availability guarantor.
validity_vote_of_guarantor(ctx, table, from, digest, valid, signature) ==
    IF digest \notin DOMAIN table.candidate_votes
    THEN unknown_digest(table, from, digest, signature)
    ELSE LET votes == table.candidate_votes[digest]
         IN  IF ~is_availability_guarantor_of(ctx, from, votes.group_id)
             THEN unauthorized(table,
                               IF valid
                                   THEN [kind |-> "Valid", digest |-> digest]
                                   ELSE [kind |-> "Invalid", digest |-> digest],
                               signature)
             ELSE IF from \in DOMAIN votes.validity_votes
             THEN occupied_vote(table, from, digest, valid, signature)
             ELSE vacant_vote(table, from, digest, valid, signature)

validity_vote(ctx, table, from, digest, valid, signature) ==
    IF digest \notin DOMAIN table.candidate_votes
    THEN unknown_digest(table, from, digest, signature)
    ELSE LET votes == table.candidate_votes[digest]
         IN  IF ~is_member_of(ctx, from, votes.group_id)
             THEN unauthorized(table,
                               IF valid
                                   THEN [kind |-> "Valid", digest |-> digest]
                                   ELSE [kind |-> "Invalid", digest |-> digest],
                               signature)
             ELSE IF from \in DOMAIN votes.validity_votes
             THEN occupied_vote(table, from, digest, valid, signature)
             ELSE vacant_vote(table, from, digest, valid, signature)

\* availability_vote reporting a repeated vote of a guarantor.
availability_vote_once(ctx, table, from, digest, signature) ==
    IF digest \notin DOMAIN table.candidate_votes
    THEN unknown_digest(table, from, digest, signature)
    ELSE LET votes == table.candidate_votes[digest]
         IN  IF \/ ~is_availability_guarantor_of(ctx, from, votes.group_id)
                \/ from \in votes.availability_votes
             THEN unauthorized(table, [kind |-> "Available", digest |-> digest],
                               signature)
             ELSE Outcome(
                     [table EXCEPT !.candidate_votes[digest].availability_votes =
                         @ \cup {from}],
                     None)

availability_vote(ctx, table, from, digest, signature) ==
    IF digest \notin DOMAIN table.candidate_votes
    THEN unknown_digest(table, from, digest, signature)
    ELSE LET votes == table.candidate_votes[digest]
         IN  IF ~is_availability_guarantor_of(ctx, from, votes.group_id)
             THEN unauthorized(table, [kind |-> "Available", digest |-> digest],
                               signature)
             ELSE Outcome(
                     [table EXCEPT !.candidate_votes[digest].availability_votes =
                         @ \cup {from}],
                     None)

\* `match statement.statement { .. }`
dispatch(ctx, table, signer, statement) ==
    LET st == statement.statement
    IN  CASE st.kind = "Candidate" ->
                import_candidate(ctx, table, signer, st.candidate, statement.signature)
          [] st.kind = "Valid" ->
                validity_vote(ctx, table, signer, st.digest, TRUE, statement.signature)
          [] st.kind = "Invalid" ->
                validity_vote(ctx, table, signer, st.digest, FALSE, statement.signature)
          [] st.kind = "Available" ->
                availability_vote(ctx, table, signer, st.digest, statement.signature)

\* detected_misbehavior holding the latest proof only.
record_misbehavior_only_latest(r, signer) ==
    IF IsSome(r.misbehavior)
        THEN [r EXCEPT !.table.detected_misbehavior =
                 Insert(<< >>, signer, Unwrap(r.misbehavior))]
        ELSE r

\* The first proof of a validator kept: entry(signer).or_insert(misbehavior).
record_misbehavior_first_kept(r, signer) ==
    IF IsSome(r.misbehavior) /\ signer \notin DOMAIN r.table.detected_misbehavior
        THEN [r EXCEPT !.table.detected_misbehavior =
                 Insert(@, signer, Unwrap(r.misbehavior))]
        ELSE r

\* `if let Some(misbehavior) = maybe_misbehavior { .. insert(signer, misbehavior) }`
record_misbehavior(r, signer) ==
    IF IsSome(r.misbehavior)
        THEN [r EXCEPT !.table.detected_misbehavior =
                 Insert(@, signer, Unwrap(r.misbehavior))]
        ELSE r

\* An unrecoverable signer taken to be the first validator.
import_statement_default_signer(ctx, table, statement) ==
    LET recovered == statement_signer(statement)
        signer == IF IsSome(recovered) THEN Unwrap(recovered) ELSE 1
    IN  record_misbehavior(dispatch(ctx, table, signer, statement), signer)

import_statement(ctx, table, statement) ==
    LET recovered == statement_signer(statement)
    IN  IF ~IsSome(recovered)
        THEN Outcome(table, None)
        ELSE record_misbehavior(dispatch(ctx, table, Unwrap(recovered), statement),
                                Unwrap(recovered))

\* ---------------------------------------------------------------------
\* The Context is fixed for the lifetime of a Table and unknown to it.
\* The state keeps the answers is_member_of and
\* is_availability_guarantor_of have given; a pair not asked about yet is
\* still free, and is fixed by the call that first asks about it.
\* ---------------------------------------------------------------------
Pairs == Validators \X Groups

NoAnswers == [is_member_of |-> << >>, is_availability_guarantor_of |-> << >>]

\* A Context that agrees with every answer given so far and answers
\* `answer` everywhere else.
Complete(known, answer) ==
    [is_member_of |->
        [p \in Pairs |-> IF p \in DOMAIN known.is_member_of
                            THEN known.is_member_of[p] ELSE answer],
     is_availability_guarantor_of |->
        [p \in Pairs |-> IF p \in DOMAIN known.is_availability_guarantor_of
                            THEN known.is_availability_guarantor_of[p] ELSE answer]]

\* The authority question the call asks, if any: the sub-operations ask at
\* most one.
Asked(table, statement) ==
    LET recovered == statement_signer(statement)
        st == statement.statement
    IN  IF ~IsSome(recovered) THEN None
        ELSE IF st.kind = "Candidate"
            THEN Some(<<"is_member_of",
                        <<Unwrap(recovered), candidate_group(st.candidate)>>>>)
        ELSE IF st.digest \notin DOMAIN table.candidate_votes THEN None
        ELSE IF st.kind = "Available"
            THEN Some(<<"is_availability_guarantor_of",
                        <<Unwrap(recovered), table.candidate_votes[st.digest].group_id>>>>)
        ELSE Some(<<"is_member_of",
                    <<Unwrap(recovered), table.candidate_votes[st.digest].group_id>>>>)

Remember(known, ctx, asked) ==
    IF ~IsSome(asked) THEN known
    ELSE LET q == Unwrap(asked)
         IN  IF q[1] = "is_member_of"
             THEN [known EXCEPT !.is_member_of = Insert(@, q[2], ctx.is_member_of[q[2]])]
             ELSE [known EXCEPT !.is_availability_guarantor_of =
                      Insert(@, q[2], ctx.is_availability_guarantor_of[q[2]])]

\* ---------------------------------------------------------------------
\* Specification
\* ---------------------------------------------------------------------
Init ==
    /\ proposed_candidates = create.proposed_candidates
    /\ detected_misbehavior = create.detected_misbehavior
    /\ candidate_votes = create.candidate_votes
    /\ context = NoAnswers
    /\ before = create
    /\ last = None
    /\ maybe_misbehavior = None
    /\ panicked = FALSE
    /\ imported = {}
    /\ imports = 0

ImportStatement(statement) ==
    /\ imports < MaxImports
    /\ ~panicked
    /\ \E answer \in BOOLEAN :
        LET ctx == Complete(context, answer)
            r == import_statement(ctx, Table, statement)
        IN  /\ proposed_candidates' = r.table.proposed_candidates
            /\ detected_misbehavior' = r.table.detected_misbehavior
            /\ candidate_votes' = r.table.candidate_votes
            /\ maybe_misbehavior' = r.misbehavior
            /\ panicked' = r.panic
            /\ context' = Remember(context, ctx, Asked(Table, statement))
    /\ before' = Table
    /\ last' = Some(statement)
    /\ imported' = imported \cup {statement}
    /\ imports' = imports + 1

Next == \E statement \in SignedStatements : ImportStatement(statement)

Spec == Init /\ [][Next]_vars

\* ---------------------------------------------------------------------
\* Reading the latest call
\* ---------------------------------------------------------------------
Proposal(candidate, signature) ==
    [statement |-> [kind |-> "Candidate", candidate |-> candidate],
     signature |-> signature]

Vote(kind, digest, signature) ==
    [statement |-> [kind |-> kind, digest |-> digest], signature |-> signature]

SignaturesOf(v) == {s \in Signatures : s.key = v}

\* The Context has answered that v is (is not) a member of group g.
Member(v, g) ==
    /\ <<v, g>> \in DOMAIN context.is_member_of
    /\ context.is_member_of[<<v, g>>]

NonMember(v, g) ==
    /\ <<v, g>> \in DOMAIN context.is_member_of
    /\ ~context.is_member_of[<<v, g>>]

Guarantor(v, g) ==
    /\ <<v, g>> \in DOMAIN context.is_availability_guarantor_of
    /\ context.is_availability_guarantor_of[<<v, g>>]

NonGuarantor(v, g) ==
    /\ <<v, g>> \in DOMAIN context.is_availability_guarantor_of
    /\ ~context.is_availability_guarantor_of[<<v, g>>]

Flagged(v, proof) ==
    /\ v \in DOMAIN detected_misbehavior
    /\ detected_misbehavior[v] = proof

Proposed(v, digest, signature) ==
    /\ v \in DOMAIN proposed_candidates
    /\ proposed_candidates[v] = <<digest, signature>>

\* ---------------------------------------------------------------------
\* C1  Equivocating proposal detection
\* ---------------------------------------------------------------------
\* C1 as stated: for any validator v and any two candidates A # B, if v's
\* proposal of A signed s1 is imported and then v's proposal of B signed s2,
\* then right after the second import detected_misbehavior[v] is
\* MultipleCandidates{first: (A, s1), second: (B, s2)} and
\* proposed_candidates[v] is still (candidate_digest(A), s1).
C1_AnyTwoProposals ==
    [][\A v \in Validators : \A A, B \in Candidates : \A s1, s2 \in SignaturesOf(v) :
        (/\ A # B
         /\ last = Some(Proposal(A, s1))
         /\ last' = Some(Proposal(B, s2)))
        => (/\ Flagged(v, MultipleCandidates(<<A, s1>>, <<B, s2>>))'
            /\ Proposed(v, candidate_digest(A), s1)')]_vars

\* C1 amended: for a validator v with no recorded proposal that is a member
\* of the groups of A and of B, and candidates A, B of different digests (in
\* the same group or not), importing v's proposal of A signed s1 and then v's
\* proposal of B signed s2 leaves detected_misbehavior[v] =
\* MultipleCandidates{first: (C, s1), second: (B, s2)}, C being the candidate
\* candidate_votes records under candidate_digest(A), which is A whenever
\* that digest had no entry before A was imported; proposed_candidates[v] is
\* still (candidate_digest(A), s1).
C1_EquivocatingProposal ==
    [][\A v \in Validators : \A A, B \in Candidates : \A s1, s2 \in SignaturesOf(v) :
        (/\ candidate_digest(A) # candidate_digest(B)
         /\ last = Some(Proposal(A, s1))
         /\ last' = Some(Proposal(B, s2))
         /\ v \notin DOMAIN before.proposed_candidates
         /\ Member(v, candidate_group(A))
         /\ Member(v, candidate_group(B))')
        => (/\ candidate_digest(A) \in DOMAIN candidate_votes
            /\ Flagged(v, MultipleCandidates(
                    <<candidate_votes[candidate_digest(A)].candidate, s1>>,
                    <<B, s2>>))'
            /\ candidate_digest(A) \notin DOMAIN before.candidate_votes
                    => candidate_votes[candidate_digest(A)].candidate = A
            /\ Proposed(v, candidate_digest(A), s1)')]_vars

\* A validator is flagged for two candidates of different groups, signed with
\* different signatures, right after the import of the second one.
C1_Witness ==
    \E v \in Validators : \E A, B \in Candidates : \E s1, s2 \in SignaturesOf(v) :
        /\ candidate_group(A) # candidate_group(B)
        /\ s1 # s2
        /\ last = Some(Proposal(B, s2))
        /\ v \in DOMAIN before.proposed_candidates
        /\ before.proposed_candidates[v] = <<candidate_digest(A), s1>>
        /\ Flagged(v, MultipleCandidates(<<A, s1>>, <<B, s2>>))
        /\ Proposed(v, candidate_digest(A), s1)

\* ---------------------------------------------------------------------
\* C2  Validity double-vote detection
\* ---------------------------------------------------------------------
\* C2: for a digest d with a CandidateData entry and a validator v that is a
\* member of the entry's group and has no recorded validity vote on d,
\* importing Valid(d) signed s1 and then Invalid(d) signed s2, or the two in
\* the opposite order, leaves detected_misbehavior[v] =
\* ValidityDoubleVote{digest: d, t_signature: s1, f_signature: s2}.
C2_ValidityDoubleVote ==
    [][\A v \in Validators : \A d \in Digests : \A s1, s2 \in SignaturesOf(v) :
        (/\ d \in DOMAIN before.candidate_votes
         /\ v \notin DOMAIN before.candidate_votes[d].validity_votes
         /\ Member(v, before.candidate_votes[d].group_id)
         /\ \/ /\ last = Some(Vote("Valid", d, s1))
               /\ last' = Some(Vote("Invalid", d, s2))
            \/ /\ last = Some(Vote("Invalid", d, s2))
               /\ last' = Some(Vote("Valid", d, s1)))
        => Flagged(v, ValidityDoubleVote(d, s1, s2))']_vars

\* A Valid vote arrives after the recorded Invalid vote, under another
\* signature, and the proof has the later signature in its t slot.
C2_Witness ==
    \E v \in Validators : \E d \in Digests : \E s1, s2 \in SignaturesOf(v) :
        /\ s1 # s2
        /\ last = Some(Vote("Valid", d, s1))
        /\ d \in DOMAIN before.candidate_votes
        /\ v \in DOMAIN before.candidate_votes[d].validity_votes
        /\ before.candidate_votes[d].validity_votes[v] = <<FALSE, s2>>
        /\ Flagged(v, ValidityDoubleVote(d, s1, s2))

\* ---------------------------------------------------------------------
\* C3  Unauthorized statement detection
\* ---------------------------------------------------------------------
VotesUnchanged ==
    /\ proposed_candidates = before.proposed_candidates
    /\ candidate_votes = before.candidate_votes

C4_DropOnUnknownDigest ==
    /\ \A s \in Signatures : \A d \in Digests : \A kind \in {"Valid", "Invalid", "Available"} :
        (/\ last = Some(Vote(kind, d, s))
         /\ d \notin DOMAIN before.candidate_votes)
        => (/\ Table = before
            /\ maybe_misbehavior = None)
    /\ \A s \in Signatures : \A c \in Candidates :
        (/\ last = Some(Proposal(c, s))
         /\ candidate_digest(c) \notin DOMAIN before.candidate_votes
         /\ candidate_digest(c) \in DOMAIN candidate_votes)
        => candidate_votes[candidate_digest(c)]
                = CandidateData(candidate_group(c), c)

\* A validator that proposed a candidate, so has authority in a group, votes
\* Invalid on a digest nobody proposed, and nothing changes.
C4_Witness ==
    \E v \in Validators : \E s \in SignaturesOf(v) : \E d \in Digests :
        /\ last = Some(Vote("Invalid", d, s))
        /\ d \notin DOMAIN before.candidate_votes
        /\ v \in DOMAIN before.proposed_candidates
        /\ Table = before

\* ---------------------------------------------------------------------
\* C5  Non-cumulative punishment
\* ---------------------------------------------------------------------
Signer == IF IsSome(last) THEN statement_signer(Unwrap(last)) ELSE None

\* C5: detected_misbehavior holds one proof per validator; an import that
\* produces a misbehavior leaves it as the proof of its signer, whatever was
\* recorded for the signer before, and every other entry is what it was
\* before the import, as is every entry after an import that produces none.
C5_NonCumulative ==
    \A w \in Validators :
        IF Signer = Some(w) /\ IsSome(maybe_misbehavior)
            THEN Flagged(w, Unwrap(maybe_misbehavior))
            ELSE /\ w \in DOMAIN detected_misbehavior
                    <=> w \in DOMAIN before.detected_misbehavior
                 /\ w \in DOMAIN detected_misbehavior
                    => detected_misbehavior[w] = before.detected_misbehavior[w]

\* A validator flagged with a proof of one kind is now flagged with a proof
\* of another kind, produced by the latest import.
C5_Witness ==
    \E w \in Validators :
        /\ Signer = Some(w)
        /\ IsSome(maybe_misbehavior)
        /\ w \in DOMAIN before.detected_misbehavior
        /\ before.detected_misbehavior[w].kind # Unwrap(maybe_misbehavior).kind
        /\ Flagged(w, Unwrap(maybe_misbehavior))

\* ---------------------------------------------------------------------
\* C6  Idempotence of identical proposals
\* ---------------------------------------------------------------------
\* C6 as stated: importing the same Candidate proposal twice in a row
\* produces no misbehavior and leaves the Table as the first import left it.
C6_RepeatedProposalNoMisbehavior ==
    [][\A c \in Candidates : \A s \in Signatures :
        (/\ last = Some(Proposal(c, s))
         /\ last' = Some(Proposal(c, s)))
        => (/\ Table' = Table
            /\ maybe_misbehavior' = None)]_vars

\* C6 amended: importing the same Candidate proposal twice in a row leaves
\* the Table as the first import left it, and the second import produces
\* what the first produced: no misbehavior when the first produced none, the
\* same proof otherwise.
C6_IdempotentProposal ==
    [][\A c \in Candidates : \A s \in Signatures :
        (/\ last = Some(Proposal(c, s))
         /\ last' = Some(Proposal(c, s)))
        => (/\ Table' = Table
            /\ maybe_misbehavior' = maybe_misbehavior)]_vars

\* The proposal a validator is recorded with is imported again: nothing
\* changes and no misbehavior is produced.
C6_Witness ==
    \E v \in Validators : \E s \in SignaturesOf(v) : \E c \in Candidates :
        /\ last = Some(Proposal(c, s))
        /\ v \in DOMAIN before.proposed_candidates
        /\ before.proposed_candidates[v] = <<candidate_digest(c), s>>
        /\ before.candidate_votes[candidate_digest(c)].candidate = c
        /\ Member(v, candidate_group(c))
        /\ maybe_misbehavior = None
        /\ Table = before

\* ---------------------------------------------------------------------
\* C7  Unrecoverable signer
\* ---------------------------------------------------------------------
\* C7: when statement_signer returns None for the imported statement,
\* proposed_candidates, candidate_votes and detected_misbehavior are what
\* they were before the import, for every statement variant.
C7_UnrecoverableSigner ==
    \A st \in SignedStatements :
        (/\ last = Some(st)
         /\ statement_signer(st) = None)
        => Table = before

\* An Invalid vote on a known digest, with a signature no signer is
\* recovered from, on a table that already flags a validator.
C7_Witness ==
    \E st \in SignedStatements :
        /\ last = Some(st)
        /\ statement_signer(st) = None
        /\ st.statement.kind = "Invalid"
        /\ st.statement.digest \in DOMAIN before.candidate_votes
        /\ before.detected_misbehavior # << >>
        /\ Table = before

\* ---------------------------------------------------------------------
\* C8  Totality
\* ---------------------------------------------------------------------
\* C8: every digest recorded in proposed_candidates has an entry in
\* candidate_votes, and the expect() of import_candidate never fails.
C8_ProposedDigestHasVotesEntry ==
    /\ ~panicked
    /\ \A v \in DOMAIN proposed_candidates :
        proposed_candidates[v][1] \in DOMAIN candidate_votes

\* The expect() was evaluated: the latest import found another digest
\* recorded for its signer and produced MultipleCandidates.
C8_Witness ==
    /\ ~panicked
    /\ IsSome(maybe_misbehavior)
    /\ Unwrap(maybe_misbehavior).kind = "MultipleCandidates"
    /\ IsSome(Signer)
    /\ Unwrap(Signer) \in DOMAIN before.proposed_candidates

\* ---------------------------------------------------------------------
\* C9  First validity vote wins
\* ---------------------------------------------------------------------
\* C9: an entry (flag, signature) of validity_votes is never changed by a
\* later import; a later vote of its validator on the digest with the same
\* flag, under any signature, changes nothing and produces no misbehavior,
\* and one with the opposite flag is reported as ValidityDoubleVote and
\* leaves candidate_votes and proposed_candidates as they were.
C9_FirstValidityVoteWins ==
    \A d \in DOMAIN before.candidate_votes :
        \A v \in DOMAIN before.candidate_votes[d].validity_votes :
            LET recorded == before.candidate_votes[d].validity_votes[v]
            IN  /\ d \in DOMAIN candidate_votes
                /\ v \in DOMAIN candidate_votes[d].validity_votes
                /\ candidate_votes[d].validity_votes[v] = recorded
                /\ \A s \in SignaturesOf(v) :
                    /\ last = Some(Vote(IF recorded[1] THEN "Valid" ELSE "Invalid", d, s))
                        => (/\ Table = before
                            /\ maybe_misbehavior = None)
                    /\ last = Some(Vote(IF recorded[1] THEN "Invalid" ELSE "Valid", d, s))
                        => (/\ maybe_misbehavior = Some(
                                    IF recorded[1]
                                        THEN ValidityDoubleVote(d, recorded[2], s)
                                        ELSE ValidityDoubleVote(d, s, recorded[2]))
                            /\ Flagged(v, Unwrap(maybe_misbehavior))
                            /\ VotesUnchanged)

\* A validator recorded with Valid under one signature votes Valid again
\* under another signature: the entry keeps the first signature.
C9_Witness ==
    \E d \in DOMAIN before.candidate_votes :
        \E v \in DOMAIN before.candidate_votes[d].validity_votes :
            \E s1, s2 \in SignaturesOf(v) :
                /\ s1 # s2
                /\ before.candidate_votes[d].validity_votes[v] = <<TRUE, s1>>
                /\ last = Some(Vote("Valid", d, s2))
                /\ candidate_votes[d].validity_votes[v] = <<TRUE, s1>>

\* ---------------------------------------------------------------------
\* C10  Nothing is ever deleted
\* ---------------------------------------------------------------------
IsPrefix(p, q) ==
    /\ Len(p) <= Len(q)
    /\ \A i \in 1..Len(p) : p[i] = q[i]

\* C10: across an import the key sets of proposed_candidates,
\* candidate_votes and detected_misbehavior grow or stay equal, and so do,
\* for every candidate, the validators of validity_votes and of
\* availability_votes and the list indicated_bad_by.
C10_NothingDeleted ==
    /\ DOMAIN before.proposed_candidates \subseteq DOMAIN proposed_candidates
    /\ DOMAIN before.detected_misbehavior \subseteq DOMAIN detected_misbehavior
    /\ DOMAIN before.candidate_votes \subseteq DOMAIN candidate_votes
    /\ \A d \in DOMAIN before.candidate_votes :
        /\ DOMAIN before.candidate_votes[d].validity_votes
                \subseteq DOMAIN candidate_votes[d].validity_votes
        /\ before.candidate_votes[d].availability_votes
                \subseteq candidate_votes[d].availability_votes
        /\ IsPrefix(before.candidate_votes[d].indicated_bad_by,
                    candidate_votes[d].indicated_bad_by)

\* A second validator's proposal of a digest that already has a validity
\* vote is accepted: its record is added and the vote is still there.
C10_Witness ==
    \E d \in DOMAIN before.candidate_votes :
        /\ before.candidate_votes[d].validity_votes # << >>
        /\ before.candidate_votes[d].indicated_bad_by # << >>
        /\ DOMAIN before.proposed_candidates # DOMAIN proposed_candidates
        /\ \E v \in DOMAIN proposed_candidates : \E s \in SignaturesOf(v) :
            /\ v \notin DOMAIN before.proposed_candidates
            /\ Proposed(v, d, s)
        /\ candidate_votes[d] = before.candidate_votes[d]

\* ---------------------------------------------------------------------
\* C11  indicated_bad_by and the Invalid votes
\* ---------------------------------------------------------------------
InList(list, x) == \E i \in 1..Len(list) : list[i] = x

\* C11: a validator is in candidate_votes[d].indicated_bad_by if and only if
\* validity_votes[d] records (false, _) for it.
C11_IndicatedBadByIsInvalidVoters ==
    \A d \in DOMAIN candidate_votes : \A v \in Validators :
        InList(candidate_votes[d].indicated_bad_by, v)
            <=> (/\ v \in DOMAIN candidate_votes[d].validity_votes
                 /\ candidate_votes[d].validity_votes[v][1] = FALSE)

\* ---------------------------------------------------------------------
\* C12  The recorded digest and the candidate it denotes
\* ---------------------------------------------------------------------
\* v signed a proposal of candidate c with signature s, and it was imported.
ProposedBy(v, c, s) ==
    /\ s \in SignaturesOf(v)
    /\ Proposal(c, s) \in imported

\* C12: the digest recorded in proposed_candidates[v] denotes, in
\* candidate_votes, a candidate that v itself proposed, under the recorded
\* signature; and every MultipleCandidates proof recorded for v has as first
\* a candidate v proposed with the signature v gave on it, and as second a
\* different candidate proposed by v.
C12_RecordedDigestDenotesOwnProposal ==
    /\ \A v \in DOMAIN proposed_candidates :
        /\ proposed_candidates[v][1] \in DOMAIN candidate_votes
        /\ ProposedBy(v, candidate_votes[proposed_candidates[v][1]].candidate,
                      proposed_candidates[v][2])
    /\ \A v \in DOMAIN detected_misbehavior :
        LET proof == detected_misbehavior[v]
        IN  proof.kind = "MultipleCandidates"
            => (/\ ProposedBy(v, proof.first[1], proof.first[2])
                /\ ProposedBy(v, proof.second[1], proof.second[2])
                /\ proof.first[1] # proof.second[1])

\* ---------------------------------------------------------------------
\* C13  CandidateData is fixed at first sight
\* ---------------------------------------------------------------------
\* C13: the group_id and candidate of an entry of candidate_votes never
\* change; an accepted proposal by a validator without a recorded proposal,
\* of a candidate whose digest already has an entry, records only
\* proposed_candidates for that validator and leaves candidate_votes and
\* detected_misbehavior as they were.
C13_CandidateDataFixed ==
    /\ \A d \in DOMAIN before.candidate_votes :
        /\ d \in DOMAIN candidate_votes
        /\ candidate_votes[d].group_id = before.candidate_votes[d].group_id
        /\ candidate_votes[d].candidate = before.candidate_votes[d].candidate
    /\ \A v \in Validators : \A s \in SignaturesOf(v) : \A c \in Candidates :
        (/\ last = Some(Proposal(c, s))
         /\ candidate_digest(c) \in DOMAIN before.candidate_votes
         /\ v \notin DOMAIN before.proposed_candidates
         /\ Member(v, candidate_group(c)))
        => (/\ proposed_candidates
                    = Insert(before.proposed_candidates, v, <<candidate_digest(c), s>>)
            /\ candidate_votes = before.candidate_votes
            /\ detected_misbehavior = before.detected_misbehavior
            /\ maybe_misbehavior = None)

\* A second validator's proposal, of another candidate with a digest that
\* already has a vote, is accepted, and the entry is what it was.
C13_Witness ==
    \E v \in Validators : \E s \in SignaturesOf(v) : \E c \in Candidates :
        /\ last = Some(Proposal(c, s))
        /\ candidate_digest(c) \in DOMAIN before.candidate_votes
        /\ before.candidate_votes[candidate_digest(c)].candidate # c
        /\ before.candidate_votes[candidate_digest(c)].validity_votes # << >>
        /\ v \notin DOMAIN before.proposed_candidates
        /\ Proposed(v, candidate_digest(c), s)
        /\ candidate_votes = before.candidate_votes

\* ---------------------------------------------------------------------
\* C14  An equivocating proposal changes only the misbehavior record
\* ---------------------------------------------------------------------
\* C14: when a validator v with an entry in proposed_candidates imports a
\* proposal with another digest, proposed_candidates and candidate_votes are
\* as they were, so no CandidateData is created for the new digest, and of
\* detected_misbehavior only the entry of v may differ.
C14_EquivocationChangesOnlyMisbehavior ==
    \A v \in Validators : \A s \in SignaturesOf(v) : \A c \in Candidates :
        (/\ last = Some(Proposal(c, s))
         /\ v \in DOMAIN before.proposed_candidates
         /\ before.proposed_candidates[v][1] # candidate_digest(c))
        => (/\ VotesUnchanged
            /\ \A w \in Validators \ {v} :
                /\ w \in DOMAIN detected_misbehavior
                    <=> w \in DOMAIN before.detected_misbehavior
                /\ w \in DOMAIN detected_misbehavior
                    => detected_misbehavior[w] = before.detected_misbehavior[w])

\* A recorded proposer proposes a candidate whose digest has no entry: it is
\* flagged with MultipleCandidates and the digest still has no entry.
C14_Witness ==
    \E v \in Validators : \E s \in SignaturesOf(v) : \E c \in Candidates :
        /\ last = Some(Proposal(c, s))
        /\ v \in DOMAIN before.proposed_candidates
        /\ before.proposed_candidates[v][1] # candidate_digest(c)
        /\ candidate_digest(c) \notin DOMAIN candidate_votes
        /\ v \in DOMAIN detected_misbehavior
        /\ detected_misbehavior[v].kind = "MultipleCandidates"
        /\ detected_misbehavior # before.detected_misbehavior
        /\ VotesUnchanged

\* ---------------------------------------------------------------------
\* C15  indicated_bad_by lists every validity voter
\* ---------------------------------------------------------------------
\* C15: a validator is appended to indicated_bad_by of a digest by its first
\* accepted validity vote on it, Valid or Invalid, and on no other occasion;
\* so indicated_bad_by holds exactly the validators with an entry in
\* validity_votes, each once, in the order of their first accepted vote.
C15_IndicatedBadByIsVoters ==
    /\ \A d \in DOMAIN candidate_votes :
        LET votes == candidate_votes[d]
        IN  /\ {votes.indicated_bad_by[i] : i \in 1..Len(votes.indicated_bad_by)}
                    = DOMAIN votes.validity_votes
            /\ Len(votes.indicated_bad_by) = Cardinality(DOMAIN votes.validity_votes)
            /\ d \notin DOMAIN before.candidate_votes
                    => votes.indicated_bad_by = << >>
    /\ \A d \in DOMAIN before.candidate_votes :
        LET new == DOMAIN candidate_votes[d].validity_votes
                        \ DOMAIN before.candidate_votes[d].validity_votes
        IN  IF new = {}
            THEN candidate_votes[d].indicated_bad_by
                    = before.candidate_votes[d].indicated_bad_by
            ELSE \E v \in new : \E s \in SignaturesOf(v) :
                    /\ new = {v}
                    /\ \/ last = Some(Vote("Valid", d, s))
                       \/ last = Some(Vote("Invalid", d, s))
                    /\ candidate_votes[d].indicated_bad_by
                        = Append(before.candidate_votes[d].indicated_bad_by, v)

\* The second validator voted first and the first validator then votes
\* Valid: the list has them in that order.
C15_Witness ==
    \E d \in DOMAIN candidate_votes : \E s \in SignaturesOf(1) :
        /\ last = Some(Vote("Valid", d, s))
        /\ d \in DOMAIN before.candidate_votes
        /\ before.candidate_votes[d].indicated_bad_by = <<2>>
        /\ candidate_votes[d].indicated_bad_by = <<2, 1>>
        /\ candidate_votes[d].validity_votes[1] = <<TRUE, s>>

\* ---------------------------------------------------------------------
\* C16  Availability votes
\* ---------------------------------------------------------------------
\* C16: Available(d) signed by an availability guarantor v of the group of
\* the known candidate d makes v a member of availability_votes of d and
\* changes nothing else; importing it again, under the same or another
\* signature, leaves the Table unchanged, and neither import produces a
\* misbehavior.
C16_AvailabilityVote ==
    \A v \in Validators : \A s \in SignaturesOf(v) : \A d \in DOMAIN before.candidate_votes :
        (/\ last = Some(Vote("Available", d, s))
         /\ Guarantor(v, before.candidate_votes[d].group_id))
        => (/\ candidate_votes
                    = [before.candidate_votes EXCEPT ![d].availability_votes = @ \cup {v}]
            /\ proposed_candidates = before.proposed_candidates
            /\ detected_misbehavior = before.detected_misbehavior
            /\ maybe_misbehavior = None
            /\ v \in before.candidate_votes[d].availability_votes => Table = before)

\* A guarantor whose Available vote is recorded votes again under another
\* signature.
C16_Witness ==
    \E v \in Validators : \E s1, s2 \in SignaturesOf(v) : \E d \in DOMAIN before.candidate_votes :
        /\ s1 # s2
        /\ Vote("Available", d, s1) \in imported
        /\ last = Some(Vote("Available", d, s2))
        /\ v \in before.candidate_votes[d].availability_votes
        /\ Guarantor(v, before.candidate_votes[d].group_id)
        /\ Table = before

\* ---------------------------------------------------------------------
\* C17  Authority violations and equivocations are never dropped
\* ---------------------------------------------------------------------
\* The proof is about the signed statement st: it wraps it, or has it as the
\* second candidate, or has its signature in the slot of its flag.
ProofOf(proof, st) ==
    \/ /\ proof.kind = "UnauthorizedStatement"
       /\ proof.statement = st
    \/ /\ proof.kind = "MultipleCandidates"
       /\ st.statement.kind = "Candidate"
       /\ proof.second = <<st.statement.candidate, st.signature>>
    \/ /\ proof.kind = "ValidityDoubleVote"
       /\ st.statement.kind \in {"Valid", "Invalid"}
       /\ proof.digest = st.statement.digest
       /\ IF st.statement.kind = "Valid"
            THEN proof.t_signature = st.signature
            ELSE proof.f_signature = st.signature

\* detected_misbehavior[v] is the proof the latest import produced, and it
\* is about st.
HoldsProofOf(v, st) ==
    /\ IsSome(maybe_misbehavior)
    /\ Flagged(v, Unwrap(maybe_misbehavior))
    /\ ProofOf(Unwrap(maybe_misbehavior), st)

Opposite(kind) == IF kind = "Valid" THEN "Invalid" ELSE "Valid"

\* The statement is an authority violation of its signer v.
AuthorityViolation(v, st) ==
    \/ /\ st.statement.kind = "Candidate"
       /\ NonMember(v, candidate_group(st.statement.candidate))
    \/ /\ st.statement.kind \in {"Valid", "Invalid"}
       /\ st.statement.digest \in DOMAIN before.candidate_votes
       /\ NonMember(v, before.candidate_votes[st.statement.digest].group_id)
    \/ /\ st.statement.kind = "Available"
       /\ st.statement.digest \in DOMAIN before.candidate_votes
       /\ NonGuarantor(v, before.candidate_votes[st.statement.digest].group_id)

\* C17 as stated: a statement imported with recoverable signer v that is an
\* authority violation, or follows an imported opposite validity vote of v
\* on the same digest or an imported proposal by v of a different candidate,
\* leaves detected_misbehavior[v] holding a proof for it.
C17_ImportedEquivocationFlagged ==
    \A v \in Validators : \A st \in SignedStatements :
        (/\ last = Some(st)
         /\ st.signature \in SignaturesOf(v)
         /\ \/ AuthorityViolation(v, st)
            \/ /\ st.statement.kind \in {"Valid", "Invalid"}
               /\ \E s2 \in SignaturesOf(v) :
                    Vote(Opposite(st.statement.kind), st.statement.digest, s2) \in imported
            \/ /\ st.statement.kind = "Candidate"
               /\ \E c2 \in Candidates \ {st.statement.candidate} :
                    \E s2 \in SignaturesOf(v) : Proposal(c2, s2) \in imported)
        => HoldsProofOf(v, st)

\* C17 amended: a statement imported with recoverable signer v that is an
\* authority violation, or a validity vote on a digest for which the table
\* has recorded v's vote with the opposite flag, or a proposal with a digest
\* other than the one recorded for v in proposed_candidates, leaves
\* detected_misbehavior[v] holding a proof for it, in the place of any
\* earlier record for v.
C17_RecordedEquivocationFlagged ==
    \A v \in Validators : \A st \in SignedStatements :
        (/\ last = Some(st)
         /\ st.signature \in SignaturesOf(v)
         /\ \/ AuthorityViolation(v, st)
            \/ /\ st.statement.kind \in {"Valid", "Invalid"}
               /\ st.statement.digest \in DOMAIN before.candidate_votes
               /\ v \in DOMAIN before.candidate_votes[st.statement.digest].validity_votes
               /\ before.candidate_votes[st.statement.digest].validity_votes[v][1]
                    # (st.statement.kind = "Valid")
            \/ /\ st.statement.kind = "Candidate"
               /\ v \in DOMAIN before.proposed_candidates
               /\ before.proposed_candidates[v][1]
                    # candidate_digest(st.statement.candidate))
        => HoldsProofOf(v, st)

\* A validator flagged with UnauthorizedStatement proposes a second digest:
\* its record is now the MultipleCandidates proof of that proposal.
C17_Witness ==
    \E v \in Validators : \E st \in SignedStatements :
        /\ last = Some(st)
        /\ st.signature \in SignaturesOf(v)
        /\ st.statement.kind = "Candidate"
        /\ v \in DOMAIN before.proposed_candidates
        /\ before.proposed_candidates[v][1] # candidate_digest(st.statement.candidate)
        /\ v \in DOMAIN before.detected_misbehavior
        /\ before.detected_misbehavior[v].kind = "UnauthorizedStatement"
        /\ v \in DOMAIN detected_misbehavior
        /\ detected_misbehavior[v].kind = "MultipleCandidates"
        /\ HoldsProofOf(v, st)

\* ---------------------------------------------------------------------
\* C18  Authorization invariant
\* ---------------------------------------------------------------------
\* C18: every validator with an entry in validity_votes or indicated_bad_by
\* of a candidate is a member of the candidate's group, and every validator
\* in availability_votes is an availability guarantor of that group; a
\* validity vote of a guarantor that is not a member records no vote.
C18_RecordedVotersAreAuthorized ==
    /\ \A d \in DOMAIN candidate_votes :
        LET votes == candidate_votes[d]
        IN  /\ \A v \in DOMAIN votes.validity_votes : Member(v, votes.group_id)
            /\ \A i \in DOMAIN votes.indicated_bad_by :
                    Member(votes.indicated_bad_by[i], votes.group_id)
            /\ \A v \in votes.availability_votes : Guarantor(v, votes.group_id)
    /\ \A v \in Validators : \A s \in SignaturesOf(v) : \A d \in DOMAIN before.candidate_votes :
        (/\ \E kind \in {"Valid", "Invalid"} : last = Some(Vote(kind, d, s))
         /\ NonMember(v, before.candidate_votes[d].group_id))
        => VotesUnchanged

\* A validator with a recorded availability vote on d, not a member of the
\* group of d, votes on the validity of d.
C18_Witness ==
    \E v \in Validators : \E s \in SignaturesOf(v) : \E d \in DOMAIN before.candidate_votes :
        /\ \E kind \in {"Valid", "Invalid"} : last = Some(Vote(kind, d, s))
        /\ v \in candidate_votes[d].availability_votes
        /\ Guarantor(v, candidate_votes[d].group_id)
        /\ NonMember(v, candidate_votes[d].group_id)
        /\ v \notin DOMAIN candidate_votes[d].validity_votes

\* ---------------------------------------------------------------------
\* C19  Per-signer frame
\* ---------------------------------------------------------------------
\* What the table holds for validator w.
RecordsOf(table, w) ==
    [proposed |-> IF w \in DOMAIN table.proposed_candidates
                    THEN Some(table.proposed_candidates[w]) ELSE None,
     misbehavior |-> IF w \in DOMAIN table.detected_misbehavior
                       THEN Some(table.detected_misbehavior[w]) ELSE None,
     validity |-> {<<d, table.candidate_votes[d].validity_votes[w]>> :
                    d \in {e \in DOMAIN table.candidate_votes :
                            w \in DOMAIN table.candidate_votes[e].validity_votes}},
     availability |-> {d \in DOMAIN table.candidate_votes :
                        w \in table.candidate_votes[d].availability_votes},
     indicated_bad |-> {d \in DOMAIN table.candidate_votes :
                        InList(table.candidate_votes[d].indicated_bad_by, w)}]

\* C19: an import whose signer is v changes no proposed_candidates entry,
\* detected_misbehavior entry, validity_votes entry, availability_votes
\* membership or indicated_bad_by membership of a validator w # v; an import
\* with no recoverable signer changes none at all.
C19_PerSignerFrame ==
    IsSome(last) =>
        \A w \in Validators :
            Signer # Some(w) => RecordsOf(Table, w) = RecordsOf(before, w)

\* The table holds a proposal and a validity vote of w, and a statement of
\* v # w has just changed what it holds for v.
C19_Witness ==
    \E v, w \in Validators :
        /\ v # w
        /\ Signer = Some(v)
        /\ RecordsOf(Table, v) # RecordsOf(before, v)
        /\ IsSome(RecordsOf(before, w).proposed)
        /\ RecordsOf(before, w).validity # {}

\* ---------------------------------------------------------------------
\* C20  Candidate entries come from proposals
\* ---------------------------------------------------------------------
\* C20: every digest key of candidate_votes is the digest component of
\* proposed_candidates[v] for some v, there are no more candidate entries
\* than validators with a recorded proposal, and only the first accepted
\* proposal of a validator adds a candidate entry.
C20_EntriesComeFromProposals ==
    /\ \A d \in DOMAIN candidate_votes :
        \E v \in DOMAIN proposed_candidates : proposed_candidates[v][1] = d
    /\ Cardinality(DOMAIN candidate_votes) <= Cardinality(DOMAIN proposed_candidates)
    /\ DOMAIN candidate_votes # DOMAIN before.candidate_votes
        => \E v \in Validators : \E s \in SignaturesOf(v) : \E c \in Candidates :
            /\ last = Some(Proposal(c, s))
            /\ v \notin DOMAIN before.proposed_candidates
            /\ proposed_candidates = Insert(before.proposed_candidates, v,
                                            <<candidate_digest(c), s>>)
            /\ DOMAIN candidate_votes
                = DOMAIN before.candidate_votes \cup {candidate_digest(c)}

\* One candidate entry, one recorded proposal, and the proposer has just
\* proposed a digest without an entry.
C20_Witness ==
    \E v \in Validators : \E s \in SignaturesOf(v) : \E c \in Candidates :
        /\ last = Some(Proposal(c, s))
        /\ v \in DOMAIN before.proposed_candidates
        /\ candidate_digest(c) \notin DOMAIN candidate_votes
        /\ Cardinality(DOMAIN candidate_votes) = 1
        /\ Cardinality(DOMAIN proposed_candidates) = 1

====
